---- MODULE Spec2Model ----
(***************************************************************************)
(* Model of generate_documents.py: the DocumentGenerator class             *)
(* (read_excel_data, generate_pdf_document, generate_word_document,        *)
(* process_file) and the Streamlit submit handler streamlit_ui.            *)
(*                                                                         *)
(* Text values are sequences of one-character strings, so that             *)
(* str.replace(' ', '_') and the f-string that builds the file name are    *)
(* computed character by character.  A spreadsheet is its column set and   *)
(* its ordered rows; a row is a function from column name to cell.         *)
(***************************************************************************)
EXTENDS Integers, Sequences, FiniteSets, TLC

\* ---------------------------------------------------------------- bounds
\* Largest number of rows of an input spreadsheet.
MaxRows == 3
\* Longest Name / Company Name of the spreadsheets of SpecNames.
MaxNameLen == 2

\* ------------------------------------------------------------ text values
None == <<>>

RECURSIVE replace(_, _, _)
\* str.replace(old, new) for one-character old and new.
replace(s, old, new) ==
    IF s = <<>> THEN <<>>
    ELSE <<(IF Head(s) = old THEN new ELSE Head(s))>> \o replace(Tail(s), old, new)

RECURSIVE join(_, _)
\* sep.join(items): the items separated by sep, as a sequence of tokens.
join(sep, items) ==
    IF items = <<>> THEN <<>>
    ELSE IF Len(items) = 1 THEN <<items[1]>>
    ELSE <<items[1], sep>> \o join(sep, Tail(items))

\* All sequences over S of length lo..hi.
SeqsBetween(S, lo, hi) == UNION {[1..k -> S] : k \in lo..hi}

\* ------------------------------------------------------------------ cells
\* A spreadsheet cell: text, a calendar date, or empty.
TextCell(s) == [t |-> "text", v |-> s]
\* y, m, d are digit strings, e.g. DateCell("2024", "01", "15").
DateCell(y, m, d) == [t |-> "date", v |-> <<y, m, d>>]
EmptyCell == [t |-> "empty", v |-> <<>>]

\* A DataFrame value: str, Timestamp, NaT or float nan.
IsStr(x) == x.t = "str"
IsDatetime(x) == x.t = "datetime"
IsNull(x) == x.t \in {"NaT", "nan"}

\* str(value) as the f-strings and str() calls of the code compute it.
str(x) ==
    CASE x.t = "str" -> x.v
      [] x.t = "datetime" -> join("-", x.v) \o <<" 00:00:00">>
      [] x.t = "NaT" -> <<"NaT">>
      [] OTHER -> <<"nan">>

\* --------------------------------------------------------------- columns
required_columns == <<"Name", "Email", "Company Name", "Position", "Joining Date">>
RequiredSet == {required_columns[i] : i \in 1..Len(required_columns)}

\* ------------------------------------------------------------- exceptions
Exc(type, msg) == [type |-> type, msg |-> msg]
NoExc == Exc("None", <<>>)

\* ---------------------------------------------------------------- reader
\* pd.read_excel: one DataFrame value per cell.  A text cell is a str, a date
\* cell a Timestamp; an empty cell is NaT in a column holding only dates and
\* float nan in any other column.
ColumnIsDatetime(sheet, c) ==
    /\ \E i \in 1..Len(sheet.rows) : sheet.rows[i][c].t = "date"
    /\ \A i \in 1..Len(sheet.rows) : sheet.rows[i][c].t # "text"

read_cell(sheet, i, c) ==
    LET x == sheet.rows[i][c] IN
    CASE x.t = "text" -> [t |-> "str", v |-> x.v]
      [] x.t = "date" -> [t |-> "datetime", v |-> x.v]
      [] OTHER -> IF ColumnIsDatetime(sheet, c)
                  THEN [t |-> "NaT", v |-> <<>>]
                  ELSE [t |-> "nan", v |-> <<>>]

read_excel(sheet) ==
    [i \in 1..Len(sheet.rows) |-> [c \in sheet.cols |-> read_cell(sheet, i, c)]]

\* A plausible slip: report only the first missing column.
missing_cols_first_only(columns) ==
    LET all == SelectSeq(required_columns, LAMBDA col : col \notin columns)
    IN  IF all = <<>> THEN <<>> ELSE <<all[1]>>

\* [col for col in required_columns if col not in df.columns]
missing_cols(columns) ==
    SelectSeq(required_columns, LAMBDA col : col \notin columns)

\* A plausible slip: rows with an empty cell are dropped (df.dropna()).
read_excel_data_dropna(sheet) ==
    LET df == read_excel(sheet)
        missing == missing_cols(sheet.cols)
    IN  IF missing # <<>>
        THEN [ok |-> FALSE, df |-> <<>>,
              exc |-> Exc("ValueError",
                          <<"Missing required columns: ">> \o join(", ", missing))]
        ELSE [ok |-> TRUE,
              df |-> SelectSeq(df, LAMBDA r : \A c \in DOMAIN r : ~IsNull(r[c])),
              exc |-> NoExc]

\* DocumentGenerator.read_excel_data: the DataFrame, or the ValueError raised
\* when required columns are missing (logged, then re-raised).
read_excel_data(sheet) ==
    LET df == read_excel(sheet)
        missing == missing_cols(sheet.cols)
    IN  IF missing # <<>>
        THEN [ok |-> FALSE, df |-> <<>>,
              exc |-> Exc("ValueError",
                          <<"Missing required columns: ">> \o join(", ", missing))]
        ELSE [ok |-> TRUE, df |-> df, exc |-> NoExc]

\* ------------------------------------------------------------- renderers
output_dir == <<"output">>

\* os.path.join(self.output_dir, filename)
path_join(dir, filename) == dir \o <<"/">> \o filename

\* A plausible slip: Name and Company Name joined without the underscore.
filename_no_separator(data, ext) ==
    replace(data["Name"].v, " ", "_") \o replace(data["Company Name"].v, " ", "_")
        \o <<ext>>

\* f"{data['Name'].replace(' ', '_')}_{data['Company Name'].replace(' ', '_')}.ext"
filename(data, ext) ==
    replace(data["Name"].v, " ", "_") \o <<"_">>
        \o replace(data["Company Name"].v, " ", "_") \o <<ext>>

\* The first exception the body of a renderer raises on `data`, NoExc if none,
\* up to (not including) the write of the file.  The accesses happen in the
\* order of the code: logo, heading (Company Name), details (Name, Position,
\* Email, Joining Date.strftime), then the two .replace calls of the file name.
render_body_exc(data, logo_path, files, image_error) ==
    LET has(c) == c \in DOMAIN data
        KeyError(c) == Exc("KeyError", <<c>>)
    IN  IF logo_path # None /\ logo_path \notin files THEN Exc(image_error, logo_path)
        ELSE IF ~has("Company Name") THEN KeyError("Company Name")
        ELSE IF ~has("Name") THEN KeyError("Name")
        ELSE IF ~has("Position") THEN KeyError("Position")
        ELSE IF ~has("Email") THEN KeyError("Email")
        ELSE IF ~has("Joining Date") THEN KeyError("Joining Date")
        ELSE IF data["Joining Date"].t = "NaT"
            THEN Exc("ValueError", <<"NaTType does not support strftime">>)
        ELSE IF ~IsDatetime(data["Joining Date"])
            THEN Exc("AttributeError", <<"object has no attribute 'strftime'">>)
        ELSE IF ~IsStr(data["Name"])
            THEN Exc("AttributeError", <<"object has no attribute 'replace'">>)
        ELSE IF ~IsStr(data["Company Name"])
            THEN Exc("AttributeError", <<"object has no attribute 'replace'">>)
        ELSE NoExc

\* A plausible change: the renderer wraps the error in a RenderError that
\* carries the record's Name and the format.
reraise_wrapped(e, data, format) ==
    [type |-> "RenderError", msg |-> e.msg,
     name |-> IF "Name" \in DOMAIN data THEN str(data["Name"]) ELSE <<>>,
     format |-> format]

\* `except Exception as e: logger.error(...); raise`: the exception leaves the
\* renderer as it was raised.
reraise(e, data, format) == e

\* One renderer call: [ok, path, exc, log].  `locked` is the set of paths the
\* file system refuses to write (pdf.output / doc.save raise PermissionError).
render(data, logo_path, files, locked, format, ext, image_error, log_text) ==
    LET body == render_body_exc(data, logo_path, files, image_error)
        filepath == path_join(output_dir, filename(data, ext))
        e == IF body # NoExc THEN body
             ELSE IF filepath \in locked THEN Exc("PermissionError", filepath)
             ELSE NoExc
    IN  IF e = NoExc
        THEN [ok |-> TRUE, path |-> filepath, exc |-> NoExc, log |-> <<>>]
        ELSE [ok |-> FALSE, path |-> None, exc |-> reraise(e, data, format),
              log |-> <<[level |-> "ERROR", text |-> log_text, arg |-> e.msg]>>]

\* DocumentGenerator.generate_pdf_document
generate_pdf_document(data, logo_path, files, locked) ==
    render(data, logo_path, files, locked, "pdf", ".pdf", "RuntimeError",
           "Error generating PDF document: ")

\* DocumentGenerator.generate_word_document
generate_word_document(data, logo_path, files, locked) ==
    render(data, logo_path, files, locked, "word", ".docx", "FileNotFoundError",
           "Error generating Word document: ")

\* ----------------------------------------------------------- process_file
Formats == {"both", "pdf", "word"}

\* A plausible slip: `output_format == 'word'` instead of `in ['word', 'both']`.
wants_word_only(output_format) == output_format = "word"

\* `if output_format in ['pdf', 'both']`
wants_pdf(output_format) == output_format \in {"pdf", "both"}

\* `if output_format in ['word', 'both']`
wants_word(output_format) == output_format \in {"word", "both"}

Call(format, r) ==
    [format |-> format, ok |-> r.ok, path |-> r.path, exc |-> r.exc, log |-> r.log]

\* A plausible slip: the Word renderer is invoked before the PDF renderer.
row_calls_word_first(row, output_format, logo_path, files, locked) ==
    LET word == Call("word", generate_word_document(row, logo_path, files, locked))
        pdf == Call("pdf", generate_pdf_document(row, logo_path, files, locked))
    IN  IF wants_word(output_format) /\ ~word.ok THEN <<word>>
        ELSE (IF wants_word(output_format) THEN <<word>> ELSE <<>>)
             \o (IF wants_pdf(output_format) THEN <<pdf>> ELSE <<>>)

\* A plausible slip: each format has its own try block, so the Word renderer
\* still runs after the PDF renderer failed.
row_calls_independent(row, output_format, logo_path, files, locked) ==
    LET pdf == Call("pdf", generate_pdf_document(row, logo_path, files, locked))
        word == Call("word", generate_word_document(row, logo_path, files, locked))
    IN  (IF wants_pdf(output_format) THEN <<pdf>> ELSE <<>>)
        \o (IF wants_word(output_format) THEN <<word>> ELSE <<>>)

\* The renderer calls of one iteration of the loop, in the order they happen:
\* the PDF renderer, then, unless it raised, the Word renderer.
row_calls(row, output_format, logo_path, files, locked) ==
    LET pdf == Call("pdf", generate_pdf_document(row, logo_path, files, locked))
        word == Call("word", generate_word_document(row, logo_path, files, locked))
    IN  IF wants_pdf(output_format) /\ ~pdf.ok THEN <<pdf>>
        ELSE (IF wants_pdf(output_format) THEN <<pdf>> ELSE <<>>)
             \o (IF wants_word(output_format) THEN <<word>> ELSE <<>>)

\* A plausible slip: `break` instead of `continue`.
after_row_break(idx, failed, n) == IF failed THEN n + 1 ELSE idx + 1

\* The index of the next row: the handler of a failed row is `continue`.
after_row(idx, failed, n) == idx + 1

\* A plausible slip: `if logo_path: self.logo_path = logo_path`.
assign_logo_path_if_given(current, logo_path) ==
    IF logo_path # None THEN logo_path ELSE current

\* `self.logo_path = logo_path`
assign_logo_path(current, logo_path) == logo_path

RECURSIVE Flatten(_)
Flatten(ss) == IF ss = <<>> THEN <<>> ELSE Head(ss) \o Flatten(Tail(ss))

\* ------------------------------------------------------------------ state
VARIABLES
    pc,               \* "idle", "call", "loop", "after", "done"
    args,             \* the caller and what it supplies
    sheet,            \* the input spreadsheet
    output_format,    \* 'both', 'pdf' or 'word'
    locked,           \* paths the file system refuses to write
    files,            \* paths that exist on disk
    self_logo_path,   \* DocumentGenerator.logo_path
    logo_path,        \* the logo_path argument of process_file
    df,               \* the DataFrame of process_file
    idx,              \* position of the loop over df.iterrows()
    generated_files,  \* the list process_file builds
    outcome,          \* of process_file: "none", "returned", "raised"
    exc,              \* the exception process_file raised
    caught,           \* the exceptions the row handler caught, with their rows
    calls,            \* the renderer invocations so far, in order
    log,              \* the lines written to the logger
    ui_msg            \* what the front end shows

vars == <<pc, args, sheet, output_format, locked, files, self_logo_path,
          logo_path, df, idx, generated_files, outcome, exc, caught, calls,
          log, ui_msg>>

temp_logo == <<"temp_logo.png">>
CompanyLogo == <<"company_logo.png">>
RunLogo == <<"run_logo.png">>

\* ----------------------------------------------------------------- inputs
GoodDate == DateCell("2024", "01", "15")

Row(name, company, joining) ==
    [c \in RequiredSet |->
        CASE c = "Name" -> name
          [] c = "Company Name" -> company
          [] c = "Joining Date" -> joining
          [] c = "Email" -> TextCell(<<"e", "@", "x">>)
          [] OTHER -> TextCell(<<"p">>)]

\* The rows the spreadsheets of Spec are made of: two well-formed ones, one
\* with a text Joining Date, one with an empty Joining Date.
RowPool ==
    { Row(TextCell(<<"a", " ", "b">>), TextCell(<<"c">>), GoodDate),
      Row(TextCell(<<"a">>), TextCell(<<"c">>), GoodDate),
      Row(TextCell(<<"a">>), TextCell(<<"c">>), TextCell(<<"soon">>)),
      Row(TextCell(<<"a">>), TextCell(<<"c">>), EmptyCell) }

SampleRow == Row(TextCell(<<"a", " ", "b">>), TextCell(<<"c">>), GoodDate)

CompleteSheets ==
    {[cols |-> RequiredSet, rows |-> r] : r \in SeqsBetween(RowPool, 0, MaxRows)}

IncompleteSheets ==
    {[cols |-> cs, rows |-> <<[c \in cs |-> SampleRow[c]]>>] :
        cs \in (SUBSET RequiredSet) \ {RequiredSet}}

Sheets == CompleteSheets \cup IncompleteSheets

\* At most one output file is locked against writing.
LockChoices ==
    {{}} \cup {{path_join(output_dir, filename(read_excel(
                    [cols |-> RequiredSet, rows |-> <<SampleRow>>])[1], ext))} :
               ext \in {".pdf", ".docx"}}

\* The front end constructs DocumentGenerator() and passes the uploads; a
\* direct caller constructs the generator and calls process_file itself.
UiArgs ==
    {[caller |-> "ui", uploaded |-> TRUE, logo_file |-> l,
      ctor_logo |-> None, logo_path |-> None] : l \in {"none", "image", "corrupt"}}
    \cup {[caller |-> "ui", uploaded |-> FALSE, logo_file |-> "none",
           ctor_logo |-> None, logo_path |-> None]}

ApiArgs ==
    {[caller |-> "api", uploaded |-> TRUE, logo_file |-> "none",
      ctor_logo |-> c, logo_path |-> l] :
        c \in {None, CompanyLogo}, l \in {None, RunLogo}}

Idle ==
    /\ pc = "idle"
    /\ files = {CompanyLogo, RunLogo}
    /\ self_logo_path = None
    /\ logo_path = None
    /\ df = <<>>
    /\ idx = 0
    /\ generated_files = <<>>
    /\ outcome = "none"
    /\ exc = NoExc
    /\ caught = <<>>
    /\ calls = <<>>
    /\ log = <<>>
    /\ ui_msg = [kind |-> "none", n |-> 0, text |-> <<>>]

Init ==
    /\ Idle
    /\ args \in UiArgs \cup ApiArgs
    /\ sheet \in Sheets
    /\ output_format \in Formats
    /\ locked \in LockChoices

\* ---------------------------------------------------------------- actions
Error(text, arg) == [level |-> "ERROR", text |-> text, arg |-> arg]
Info(text, arg) == [level |-> "INFO", text |-> text, arg |-> arg]

\* streamlit_ui, the "Generate Documents" branch up to the call of
\* process_file: no spreadsheet gives a warning; otherwise DocumentGenerator()
\* is constructed and an uploaded logo is saved as temp_logo.png.  Image.open
\* raising on the upload is caught by the handler's except.
Submit ==
    /\ pc = "idle"
    /\ args.caller = "ui"
    /\ UNCHANGED <<args, sheet, output_format, locked, df, idx, generated_files,
                   outcome, exc, caught, calls, log>>
    /\ self_logo_path' = None
    /\ IF ~args.uploaded
       THEN /\ ui_msg' = [kind |-> "warning", n |-> 0,
                          text |-> <<"Please upload an Excel file.">>]
            /\ pc' = "done"
            /\ UNCHANGED <<files, logo_path>>
       ELSE IF args.logo_file = "corrupt"
       THEN /\ ui_msg' = [kind |-> "error", n |-> 0,
                          text |-> <<"Error generating documents: ",
                                     "cannot identify image file">>]
            /\ pc' = "done"
            /\ UNCHANGED <<files, logo_path>>
       ELSE IF args.logo_file = "image"
       THEN /\ logo_path' = temp_logo
            /\ files' = files \cup {temp_logo}
            /\ pc' = "call"
            /\ UNCHANGED ui_msg
       ELSE /\ logo_path' = None
            /\ pc' = "call"
            /\ UNCHANGED <<files, ui_msg>>

\* A direct caller: DocumentGenerator(logo_path=ctor_logo), then
\* process_file(sheet, output_format, logo_path).
ApiCall ==
    /\ pc = "idle"
    /\ args.caller = "api"
    /\ self_logo_path' = args.ctor_logo
    /\ logo_path' = args.logo_path
    /\ pc' = "call"
    /\ UNCHANGED <<args, sheet, output_format, locked, files, df, idx,
                   generated_files, outcome, exc, caught, calls, log, ui_msg>>

\* process_file up to the loop: the logo assignment, then read_excel_data.  A
\* reader failure is logged by the reader and by process_file and re-raised.
ProcessFileBegin ==
    /\ pc = "call"
    /\ self_logo_path' = assign_logo_path(self_logo_path, logo_path)
    /\ LET r == read_excel_data(sheet) IN
       IF r.ok
       THEN /\ df' = r.df
            /\ generated_files' = <<>>
            /\ idx' = 1
            /\ pc' = "loop"
            /\ UNCHANGED <<outcome, exc, log>>
       ELSE /\ log' = log \o <<Error("Error reading Excel file: ", r.exc.msg),
                               Error("Error processing file: ", r.exc.msg)>>
            /\ exc' = r.exc
            /\ outcome' = "raised"
            /\ pc' = "after"
            /\ UNCHANGED <<df, generated_files, idx>>
    /\ UNCHANGED <<args, sheet, output_format, locked, files, logo_path, caught,
                   calls, ui_msg>>

\* One iteration of `for _, row in df.iterrows()`.
ProcessRow ==
    /\ pc = "loop"
    /\ idx <= Len(df)
    /\ LET row == df[idx]
           cs == row_calls(row, output_format, self_logo_path, files, locked)
           done == SelectSeq(cs, LAMBDA c : c.ok)
           failed == \E i \in 1..Len(cs) : ~cs[i].ok
           e == cs[Len(cs)].exc
       IN  /\ generated_files' = generated_files \o [i \in 1..Len(done) |-> done[i].path]
           /\ files' = files \cup {done[i].path : i \in 1..Len(done)}
           /\ calls' = calls \o [i \in 1..Len(cs) |->
                                   [row |-> idx, format |-> cs[i].format,
                                    logo |-> self_logo_path, ok |-> cs[i].ok,
                                    path |-> cs[i].path]]
           /\ log' = log \o Flatten([i \in 1..Len(cs) |-> cs[i].log])
                         \o (IF failed
                             THEN <<Error("Error processing row: ", e.msg)>>
                             ELSE <<Info("Generated documents for ", str(row["Name"]))>>)
           /\ caught' = IF failed THEN Append(caught, [row |-> idx, exc |-> e])
                        ELSE caught
           /\ idx' = after_row(idx, failed, Len(df))
    /\ UNCHANGED <<pc, args, sheet, output_format, locked, self_logo_path,
                   logo_path, df, outcome, exc, ui_msg>>

\* `return generated_files`
ProcessFileReturn ==
    /\ pc = "loop"
    /\ idx > Len(df)
    /\ outcome' = "returned"
    /\ pc' = "after"
    /\ UNCHANGED <<args, sheet, output_format, locked, files, self_logo_path,
                   logo_path, df, idx, generated_files, exc, caught, calls, log,
                   ui_msg>>

\* streamlit_ui after process_file: st.success and the cleanup of the
\* temporary logo on a normal return, st.error in the except branch.
UiFinish ==
    /\ pc = "after"
    /\ args.caller = "ui"
    /\ IF outcome = "returned"
       THEN /\ ui_msg' = [kind |-> "success", n |-> Len(generated_files),
                          text |-> <<"Successfully generated ", " documents!">>]
            /\ files' = IF logo_path # None THEN files \ {logo_path} ELSE files
       ELSE /\ ui_msg' = [kind |-> "error", n |-> 0,
                          text |-> <<"Error generating documents: ">> \o exc.msg]
            /\ UNCHANGED files
    /\ pc' = "done"
    /\ UNCHANGED <<args, sheet, output_format, locked, self_logo_path, logo_path,
                   df, idx, generated_files, outcome, exc, caught, calls, log>>

\* The direct caller receives the list or the exception.
ApiFinish ==
    /\ pc = "after"
    /\ args.caller = "api"
    /\ pc' = "done"
    /\ UNCHANGED <<args, sheet, output_format, locked, files, self_logo_path,
                   logo_path, df, idx, generated_files, outcome, exc, caught,
                   calls, log, ui_msg>>

Next ==
    \/ Submit
    \/ ApiCall
    \/ ProcessFileBegin
    \/ ProcessRow
    \/ ProcessFileReturn
    \/ UiFinish
    \/ ApiFinish

Spec == Init /\ [][Next]_vars

\* ------------------------------------------------- spreadsheets of names
\* Two-row spreadsheets whose Name and Company Name range over every text of
\* letters and spaces up to MaxNameLen, processed by a direct caller in both
\* formats.
NameChars == {"a", " "}
NameTexts == {TextCell(s) : s \in SeqsBetween(NameChars, 1, MaxNameLen)}

NameSheets ==
    {[cols |-> RequiredSet,
      rows |-> <<Row(n1, c1, GoodDate), Row(n2, c2, GoodDate)>>] :
        n1 \in NameTexts, c1 \in NameTexts, n2 \in NameTexts, c2 \in NameTexts}

InitNames ==
    /\ Idle
    /\ args = [caller |-> "api", uploaded |-> TRUE, logo_file |-> "none",
               ctor_logo |-> None, logo_path |-> None]
    /\ sheet \in NameSheets
    /\ output_format = "both"
    /\ locked = {}

NextNames ==
    \/ ApiCall
    \/ ProcessFileBegin
    \/ ProcessRow
    \/ ProcessFileReturn
    \/ ApiFinish

SpecNames == InitNames /\ [][NextNames]_vars

\* ------------------------------------------------------ shared vocabulary
\* process_file has been entered (the logo assignment and the read happened).
Called == pc \in {"loop", "after"} \/ (pc = "done" /\ outcome # "none")
\* read_excel_data returned a DataFrame.
ReadSucceeded == Called /\ outcome # "raised"
Complete == sheet.cols = RequiredSet
Missing == RequiredSet \ sheet.cols
OutputFiles == files \ {temp_logo, CompanyLogo, RunLogo}
\* Row r has been through its iteration of the loop.
Processed(r) == r \in 1..Len(df) /\ r < idx
HasCall(r, f) == \E k \in DOMAIN calls : calls[k].row = r /\ calls[k].format = f
CallOk(r, f) ==
    \E k \in DOMAIN calls : calls[k].row = r /\ calls[k].format = f /\ calls[k].ok
CallFailed(r, f) ==
    \E k \in DOMAIN calls : calls[k].row = r /\ calls[k].format = f /\ ~calls[k].ok
RowFailed(r) == \E k \in DOMAIN calls : calls[k].row = r /\ ~calls[k].ok
InResult(p) == \E k \in DOMAIN generated_files : generated_files[k] = p
OkCalls == SelectSeq(calls, LAMBDA c : c.ok)
ExtOf(f) == IF f = "pdf" THEN ".pdf" ELSE ".docx"
ExpectedPath(r, f) == path_join(output_dir, filename(df[r], ExtOf(f)))
Wanted(f) == IF f = "pdf" THEN output_format \in {"pdf", "both"}
             ELSE output_format \in {"word", "both"}
RowErrorLines ==
    SelectSeq(log, LAMBDA l : l.level = "ERROR" /\ l.text = "Error processing row: ")

\* ------------------------------------------------------------------ claims

\* C1: after a front-end submit with a spreadsheet and an uploaded logo, the
\* temporary logo file temp_logo.png no longer exists once the handler has
\* finished, whether process_file returned or raised.
C1_TempLogoRemoved ==
    (pc = "done" /\ args.caller = "ui" /\ args.uploaded /\ args.logo_file = "image")
        => temp_logo \notin files

\* C2: when required columns are missing, process_file raises before any
\* renderer is invoked and before any document is written, and the message of
\* the error names every missing column.
C2_MissingColumnsFailFirst ==
    (Called /\ Missing # {}) =>
        /\ outcome = "raised"
        /\ exc.type = "ValueError"
        /\ calls = <<>>
        /\ OutputFiles = {}
        /\ generated_files = <<>>
        /\ \A c \in Missing : \E k \in DOMAIN exc.msg : exc.msg[k] = c

C2_Witness ==
    /\ pc = "done"
    /\ outcome = "raised"
    /\ Cardinality(Missing) >= 2
    /\ Len(sheet.rows) >= 1

\* C3: once the reader has succeeded a render failure never aborts the run:
\* process_file does not raise, every row is processed (also after a failing
\* row), and the result holds the outputs of every row that did not fail.  A
\* run over 3 records with output_format 'both', where row 2 has a non-date
\* Joining Date and rows 1 and 3 are well formed and writable, yields exactly
\* 4 paths and one logged row failure, that of row 2.
C3_RenderFailureIsolated ==
    (Called /\ Complete) =>
        /\ outcome # "raised"
        /\ \A r \in 1..Len(df) : Processed(r) =>
              /\ \E f \in {"pdf", "word"} : HasCall(r, f)
              /\ ~RowFailed(r) =>
                    \A f \in {"pdf", "word"} : Wanted(f) => InResult(ExpectedPath(r, f))
        /\ outcome = "returned" => \A r \in 1..Len(df) : Processed(r)
        /\ (/\ outcome = "returned"
            /\ output_format = "both"
            /\ Len(df) = 3
            /\ ~IsDatetime(df[2]["Joining Date"])
            /\ IsDatetime(df[1]["Joining Date"])
            /\ IsDatetime(df[3]["Joining Date"])
            /\ locked = {})
           => /\ Len(generated_files) = 4
              /\ generated_files = <<ExpectedPath(1, "pdf"), ExpectedPath(1, "word"),
                                     ExpectedPath(3, "pdf"), ExpectedPath(3, "word")>>
              /\ Len(RowErrorLines) = 1
              /\ Len(caught) = 1
              /\ caught[1].row = 2

C3_Witness ==
    /\ pc = "done"
    /\ outcome = "returned"
    /\ output_format = "both"
    /\ Len(df) = 3
    /\ sheet.rows[2]["Joining Date"].t = "text"
    /\ Len(generated_files) = 4
    /\ Len(caught) = 1

\* C4: a valid dataset of N rows processed with output_format 'both' in which
\* every render call succeeds gives a list of exactly 2*N paths.
C4_BothGivesTwoPathsPerRow ==
    (/\ outcome = "returned"
     /\ output_format = "both"
     /\ \A k \in DOMAIN calls : calls[k].ok)
        => Len(generated_files) = 2 * Len(df)

C4_Witness ==
    /\ pc = "done"
    /\ outcome = "returned"
    /\ output_format = "both"
    /\ Len(df) = MaxRows
    /\ \A k \in DOMAIN calls : calls[k].ok
    /\ Len(generated_files) = 2 * MaxRows

\* Two successful calls of one format wrote the same path.
SamePath(i, j) ==
    /\ calls[i].ok /\ calls[j].ok
    /\ calls[i].format = calls[j].format
    /\ calls[i].path = calls[j].path
ShareNameAndCompany(r1, r2) ==
    /\ df[r1]["Name"] = df[r2]["Name"]
    /\ df[r1]["Company Name"] = df[r2]["Company Name"]
HasSeparator(x) == \E k \in DOMAIN x.v : x.v[k] \in {" ", "_"}
SeparatorFree(r) == ~HasSeparator(df[r]["Name"]) /\ ~HasSeparator(df[r]["Company Name"])

\* C5 (as stated): within one run and one format, two rows are written to the
\* same path only if they share both Name and Company Name exactly.
C5_SamePathOnlyIfSameNameAndCompany ==
    \A i, j \in DOMAIN calls :
        SamePath(i, j) => ShareNameAndCompany(calls[i].row, calls[j].row)

\* C5 (amended): within one run and one format, two rows whose Name and
\* Company Name contain neither spaces nor underscores are written to the
\* same path only if they share both Name and Company Name exactly.
C5_SeparatorFreeSamePathOnlyIfSame ==
    \A i, j \in DOMAIN calls :
        (SamePath(i, j) /\ SeparatorFree(calls[i].row) /\ SeparatorFree(calls[j].row))
            => ShareNameAndCompany(calls[i].row, calls[j].row)

C5_Witness ==
    /\ pc = "done"
    /\ Len(df) = 2
    /\ SeparatorFree(1) /\ SeparatorFree(2)
    /\ Len(df[1]["Name"].v) < Len(df[2]["Name"].v)
    /\ Len(df[1]["Company Name"].v) > Len(df[2]["Company Name"].v)
    /\ Len(OkCalls) = 4
    /\ generated_files[1] # generated_files[3]
    /\ generated_files[2] # generated_files[4]

LibraryErrors ==
    {"ValueError", "AttributeError", "KeyError", "PermissionError", "RuntimeError",
     "FileNotFoundError"}
RenderLogText(f) ==
    IF f = "pdf" THEN "Error generating PDF document: "
    ELSE "Error generating Word document: "
\* The call of row r that raised.
FailedFormat(r) == IF CallFailed(r, "pdf") THEN "pdf" ELSE "word"

\* C6 (as stated): the error the orchestrator receives from a renderer is a
\* RenderError carrying the failing record's Name and the target format.
C6_RenderErrorCarriesNameAndFormat ==
    \A k \in DOMAIN caught :
        LET e == caught[k].exc IN
        /\ e.type = "RenderError"
        /\ {"name", "format"} \subseteq DOMAIN e
        /\ e.name = str(df[caught[k].row]["Name"])
        /\ e.format = FailedFormat(caught[k].row)

\* C6 (amended): an error raised inside a renderer is logged there with a text
\* that names the format and re-raised unchanged: the orchestrator receives the
\* original library error, which carries neither the record's Name nor the
\* format, and logs its message as "Error processing row: ".
C6_ErrorLoggedAndReraisedUnchanged ==
    \A k \in DOMAIN caught :
        LET e == caught[k].exc
            f == FailedFormat(caught[k].row)
        IN  /\ e.type \in LibraryErrors
            /\ DOMAIN e = {"type", "msg"}
            /\ RowFailed(caught[k].row)
            /\ \E n \in 1..(Len(log) - 1) :
                  /\ log[n] = Error(RenderLogText(f), e.msg)
                  /\ log[n + 1] = Error("Error processing row: ", e.msg)

C6_Witness ==
    /\ pc = "done"
    /\ output_format = "both"
    /\ \E k \in DOMAIN caught :
          /\ caught[k].exc.type = "AttributeError"
          /\ CallFailed(caught[k].row, "pdf")
    /\ \E k \in DOMAIN caught :
          /\ caught[k].exc.type = "PermissionError"
          /\ CallFailed(caught[k].row, "word")

\* C7: rows are rendered in dataset order, within a row the PDF renderer
\* (formats pdf, both) runs before the Word renderer (formats word, both);
\* the list holds exactly the paths of the calls that succeeded, in call order;
\* and a run in which every row failed returns the empty list normally.
C7_OrderAndResult ==
    /\ \A i, j \in DOMAIN calls : i < j =>
          /\ calls[i].row <= calls[j].row
          /\ calls[i].row = calls[j].row =>
                (calls[i].format = "pdf" /\ calls[j].format = "word")
    /\ \A k \in DOMAIN calls : Wanted(calls[k].format)
    /\ \A r \in 1..Len(df) : Processed(r) =>
          /\ Wanted("pdf") => HasCall(r, "pdf")
          /\ (Wanted("word") /\ ~CallFailed(r, "pdf")) => HasCall(r, "word")
    /\ generated_files = [k \in 1..Len(OkCalls) |-> OkCalls[k].path]
    /\ (pc \in {"after", "done"} /\ Called /\ Complete /\ OkCalls = <<>>)
          => (outcome = "returned" /\ generated_files = <<>> /\ exc = NoExc)

C7_Witness ==
    /\ pc = "done"
    /\ outcome = "returned"
    /\ output_format = "both"
    /\ Len(df) = 3
    /\ CallOk(1, "pdf") /\ CallOk(1, "word")
    /\ RowFailed(2)
    /\ CallOk(3, "pdf") /\ CallOk(3, "word")
    /\ generated_files[1] # generated_files[3]

\* The run in which every row failed: the empty list, returned normally.
C7_EmptyResultReached ==
    /\ pc = "done"
    /\ outcome = "returned"
    /\ Len(df) >= 2
    /\ generated_files = <<>>

\* C8: with output_format 'both', if the PDF render of a row succeeds and its
\* Word render fails, the PDF path stays in the list and its file on disk; if
\* the PDF render fails, the Word renderer is not invoked for that row and the
\* row contributes no path.
C8_FailureKeepsEarlierOutput ==
    output_format = "both" =>
        \A r \in 1..Len(df) : Processed(r) =>
            /\ (CallOk(r, "pdf") /\ CallFailed(r, "word")) =>
                  /\ InResult(ExpectedPath(r, "pdf"))
                  /\ ExpectedPath(r, "pdf") \in files
                  /\ Len(generated_files) = Len(OkCalls)
            /\ CallFailed(r, "pdf") =>
                  /\ ~HasCall(r, "word")
                  /\ \A k \in DOMAIN calls : calls[k].row = r => ~calls[k].ok
                  /\ Len(generated_files) = Len(OkCalls)

C8_Witness ==
    /\ pc = "done"
    /\ output_format = "both"
    /\ \E r \in 1..Len(df) : CallOk(r, "pdf") /\ CallFailed(r, "word")
    /\ \E r \in 1..Len(df) : CallFailed(r, "pdf")

C10_LogoIsTheArgument ==
    /\ \A k \in DOMAIN calls : calls[k].logo = logo_path
    /\ Called => self_logo_path = logo_path

C10_Witness ==
    /\ pc = "done"
    /\ outcome = "returned"
    /\ args.ctor_logo = CompanyLogo
    /\ logo_path = None
    /\ self_logo_path = None
    /\ Len(calls) >= 2
    /\ \A k \in DOMAIN calls : calls[k].logo = None /\ calls[k].ok

====
